---- MODULE Spec2Model ----
(***************************************************************************)
(* deadpool-postgres: the pool manager (create / recycle / detach), the    *)
(* registry of weak references to statement caches (StatementCaches), the  *)
(* per-connection StatementCache, and the cache-aware prepare of           *)
(* ClientWrapper and Transaction.  Source: src/postgres/src/lib.rs.        *)
(***************************************************************************)
EXTENDS Integers, Sequences, FiniteSets, TLC

\* ------------------------------------------------------------------ bounds
MaxWrappers == 2
MaxPrepares == 2
MaxDepth == 2
NumTasks == 1

Wrappers == 1..MaxWrappers
Tasks == 1..NumTasks
Handles == 1..MaxPrepares

\* ------------------------------------------------------------ value spaces
Queries == {"q1", "q2"}
TypeLists == {<<>>, <<"INT4">>}
\* StatementCacheKey { query, types }: structural equality over both fields.
StatementCacheKey(query, types) == [query |-> query, types |-> types]
Keys == {StatementCacheKey(q, ty) : q \in Queries, ty \in TypeLists}
NoKey == [query |-> "-", types |-> <<>>]

RecyclingMethods == {"Fast", "Verified", "Clean", "Custom"}
\* Errors the database client can return from simple_query / prepare_typed.
PgErrors == {"db error", "connection reset"}
NoSql == "-"

VARIABLES
    recycling_method, \* Manager.config.recycling_method (fixed at construction)
    wrapper,          \* [w -> "none" | "alive" | "dropped"]: the ClientWrapper
    client,           \* [w -> "none" | "open" | "closed"]: PgClient::is_closed
    strong,           \* [w -> Nat]: strong count of the Arc<StatementCache> of w
    cache,            \* [w -> [map, size]]: the StatementCache of wrapper w
    caches,           \* StatementCaches.caches: Vec<Weak<StatementCache>>
    txns,             \* [w -> Seq(cache ref)]: open (nested) transactions of w
    nextStmt,         \* next statement handle the server hands out
    task,             \* [t -> call record]: the call each task is in the middle of
    last,             \* the record of the call that returned last
    mutex,            \* holder of StatementCaches.caches' Mutex (0: free)
    attached,         \* [w -> Nat]: pushes of w's cache onto the registry
    removed,          \* [w -> Nat]: entries of w's cache taken off the registry
    detached          \* [w -> BOOLEAN]: Manager::detach has run on wrapper w

vars == <<recycling_method, wrapper, client, strong, cache, caches, txns,
          nextStmt, task, last, mutex, attached, removed, detached>>

\* ------------------------------------------------------------ StatementCache
EmptyMap == [k \in {} |-> 0]

\* StatementCache::new
NewCache == [map |-> EmptyMap, size |-> 0]

\* Mutant of MapInsert: a key that is already bound keeps its handle.
MapInsert_KeepsFirst(m, k, h) ==
    IF k \in DOMAIN m /\ m[k] > 0
    THEN m
    ELSE [k2 \in (DOMAIN m) \cup {k} |-> IF k2 = k THEN h ELSE m[k2]]

\* HashMap::insert: the map with key k bound to handle h.
MapInsert(m, k, h) ==
    [k2 \in (DOMAIN m) \cup {k} |-> IF k2 = k THEN h ELSE m[k2]]

\* HashMap::remove: the map without key k.
MapRemove(m, k) == [k2 \in (DOMAIN m) \ {k} |-> m[k2]]

\* AtomicUsize::fetch_sub(1): wraps below zero (usize arithmetic).
UsizeMax == 2147483647
FetchSub(n) == IF n = 0 THEN UsizeMax ELSE n - 1

\* StatementCache::size
CacheSize(c) == c.size

\* StatementCache::clear
CacheClear(c) == [map |-> EmptyMap, size |-> 0]

\* StatementCache::remove: the cache afterwards.
CacheRemove(c, k) ==
    IF k \in DOMAIN c.map
    THEN [map |-> MapRemove(c.map, k), size |-> FetchSub(c.size)]
    ELSE c

\* StatementCache::remove: the returned Option<Statement> (0: None).
CacheRemoved(c, k) == IF k \in DOMAIN c.map THEN c.map[k] ELSE 0

\* Mutant of CacheGet: the key is compared by its query text alone.
CacheGet_QueryOnly(c, k) ==
    IF \E k2 \in DOMAIN c.map : k2.query = k.query
    THEN c.map[CHOOSE k2 \in DOMAIN c.map : k2.query = k.query]
    ELSE 0

\* StatementCache::get: Option<Statement> (0: None).
CacheGet(c, k) == IF k \in DOMAIN c.map THEN c.map[k] ELSE 0

\* StatementCache::insert
CacheInsert(c, k, h) ==
    [map |-> MapInsert(c.map, k, h),
     size |-> IF k \in DOMAIN c.map THEN c.size ELSE c.size + 1]

\* ----------------------------------------------------------- StatementCaches
\* Mutant of RegAttach: the cache is pushed twice.
RegAttach_Twice(cs, c) == Append(Append(cs, c), c)

\* StatementCaches::attach: push a Weak of the cache.
RegAttach(cs, c) == Append(cs, c)

\* Weak::ptr_eq: two references are the same when they name the same cache.
PtrEq(a, b) == a = b

\* Mutant of RegDetach: the `!` of the retain predicate is missing.
RegDetach_Inverted(cs, c) == SelectSeq(cs, LAMBDA sc : PtrEq(sc, c))

\* Mutant of RegDetach: entries are compared by the contents of their cache.
RegDetach_ByContents(cs, c) == SelectSeq(cs, LAMBDA sc : cache[sc] # cache[c])

\* StatementCaches::detach: retain the entries that are not the cache.
RegDetach(cs, c) == SelectSeq(cs, LAMBDA sc : ~PtrEq(sc, c))

\* Weak::upgrade succeeds while some Arc of the cache is alive.
Upgrade(c) == strong[c] > 0

\* Number of entries of the registry that refer to cache c.
Entries(cs, c) == Cardinality({i \in 1..Len(cs) : cs[i] = c})

RECURSIVE RegClear_StopsAtDead(_, _)
\* Mutant of RegClear: the loop ends at the first entry that does not upgrade.
RegClear_StopsAtDead(cs, all) ==
    IF cs = <<>> THEN all
    ELSE IF Upgrade(Head(cs))
         THEN RegClear_StopsAtDead(Tail(cs), [all EXCEPT ![Head(cs)] = CacheClear(@)])
         ELSE all

RECURSIVE RegClear(_, _)
\* StatementCaches::clear: the loop over the entries, on the caches `all`.
RegClear(cs, all) ==
    IF cs = <<>> THEN all
    ELSE RegClear(Tail(cs),
                  IF Upgrade(Head(cs))
                  THEN [all EXCEPT ![Head(cs)] = CacheClear(@)]
                  ELSE all)

\* Mutant of RegRemove: the loop ends after the first entry.
RegRemove_FirstOnly(cs, all, k) ==
    IF cs = <<>> \/ ~Upgrade(Head(cs)) THEN all
    ELSE [all EXCEPT ![Head(cs)] = CacheRemove(@, k)]

RECURSIVE RegRemove(_, _, _)
\* StatementCaches::remove: the loop over the entries, on the caches `all`.
RegRemove(cs, all, k) ==
    IF cs = <<>> THEN all
    ELSE RegRemove(Tail(cs),
                   IF Upgrade(Head(cs))
                   THEN [all EXCEPT ![Head(cs)] = CacheRemove(@, k)]
                   ELSE all,
                   k)

\* ------------------------------------------------------------ RecyclingMethod
\* RecyclingMethod::query: the statement recycle runs (NoSql: none).
Query(method) ==
    CASE method = "Fast" -> NoSql
      [] method = "Verified" -> "verify"
      [] method = "Clean" -> "clean"
      [] method = "Custom" -> "custom"

\* ------------------------------------------------------------ task records
Idle == [pc |-> "idle", op |-> "none", w |-> 0, k |-> NoKey, via |-> "none",
         ret |-> "none", h |-> 0, msg |-> "", n |-> 0, sql |-> NoSql,
         pre |-> "none", pg |-> "none", i |-> 0, held |-> 0]

\* The record of a call op(w, k) as it starts.
Call(op, w, k) == [Idle EXCEPT !.pc = "run", !.op = op, !.w = w, !.k = k]

\* The record of a call as it returns ret (with handle h or message msg).
Ret(rec, ret, h, msg) ==
    [rec EXCEPT !.pc = "idle", !.ret = ret, !.h = h, !.msg = msg]

\* A task takes a step of its call: it goes on (the record is its state), or
\* the call returns and its record becomes the last finished call.
Step(t, rec) ==
    IF rec.pc = "idle"
    THEN task' = [task EXCEPT ![t] = Idle] /\ last' = rec
    ELSE task' = [task EXCEPT ![t] = rec] /\ UNCHANGED last

\* A call that does not await returns within the step.
Return(rec) == last' = rec /\ UNCHANGED task

\* A task holds `&mut ClientWrapper` of w while its recycle awaits the query.
HoldsMut(w) == \E t \in Tasks : task[t].pc = "recycle_query" /\ task[t].w = w
\* A task holds `&ClientWrapper` / `&Transaction` of w while a prepare awaits.
HoldsRef(w) == \E t \in Tasks : task[t].pc = "prepare_await" /\ task[t].w = w
\* The wrapper can be used by its owner: alive, not lent to a transaction
\* (Transaction<'_> borrows it mutably), not lent to a running recycle.
Usable(w) == wrapper[w] = "alive" /\ txns[w] = <<>> /\ ~HoldsMut(w)
\* The owner can take `&mut` or drop it: no shared borrow is out either.
Exclusive(w) == Usable(w) /\ ~HoldsRef(w)
\* The innermost transaction of w can be used.
TxnUsable(w) == wrapper[w] = "alive" /\ txns[w] # <<>>
\* The receiver `via` of a call on wrapper w can be used.
CanUse(w, via) == IF via = "client" THEN Usable(w) ELSE TxnUsable(w)
\* The cache a call through `via` on wrapper w works on: the wrapper's
\* statement_cache, or the statement_cache reference of its innermost
\* transaction.
CacheRef(w, via) == IF via = "client" THEN w ELSE txns[w][Len(txns[w])]

Init ==
    /\ recycling_method \in RecyclingMethods
    /\ wrapper = [w \in Wrappers |-> "none"]
    /\ client = [w \in Wrappers |-> "none"]
    /\ strong = [w \in Wrappers |-> 0]
    /\ cache = [w \in Wrappers |-> NewCache]
    /\ caches = <<>>
    /\ txns = [w \in Wrappers |-> <<>>]
    /\ nextStmt = 1
    /\ task = [t \in Tasks |-> Idle]
    /\ last = Idle
    /\ mutex = 0
    /\ attached = [w \in Wrappers |-> 0]
    /\ removed = [w \in Wrappers |-> 0]
    /\ detached = [w \in Wrappers |-> FALSE]

\* -------------------------------------------------------------------- Manager
\* Manager::create: connect, wrap the client (ClientWrapper::new makes the
\* cache), attach the cache to the registry.  A failed connect returns the
\* error and creates nothing.
Create(w) ==
    /\ mutex = 0
    /\ wrapper[w] = "none"
    /\ \A v \in Wrappers : v < w => wrapper[v] # "none"
    /\ \/ /\ wrapper' = [wrapper EXCEPT ![w] = "alive"]
          /\ client' = [client EXCEPT ![w] = "open"]
          /\ strong' = [strong EXCEPT ![w] = 1]
          /\ cache' = [cache EXCEPT ![w] = NewCache]
          /\ caches' = RegAttach(caches, w)
          /\ attached' = [attached EXCEPT ![w] = @ + Len(caches') - Len(caches)]
          /\ Return(Ret(Call("create", w, NoKey), "Ok", 0, ""))
       \/ /\ \E e \in PgErrors :
                Return(Ret(Call("create", 0, NoKey), "ErrBackend", 0, e))
          /\ UNCHANGED <<wrapper, client, strong, cache, caches, attached>>
    /\ UNCHANGED <<recycling_method, txns, nextStmt, mutex, removed, detached>>

\* Mutant of RecycleCheck: the recycling method is looked at before is_closed.
RecycleCheck_MethodFirst(rec, is_closed, sql) ==
    IF sql = NoSql
    THEN Ret(rec, "Ok", 0, "")
    ELSE IF is_closed
         THEN Ret(rec, "ErrMessage", 0, "Connection closed")
         ELSE [rec EXCEPT !.pc = "recycle_query", !.sql = sql]

\* Mutant of RecycleCheck: a method without a statement still probes.
RecycleCheck_AlwaysProbes(rec, is_closed, sql) ==
    IF is_closed
    THEN Ret(rec, "ErrMessage", 0, "Connection closed")
    ELSE [rec EXCEPT !.pc = "recycle_query",
                     !.sql = IF sql = NoSql THEN "verify" ELSE sql]

\* Manager::recycle up to its first await: the is_closed check, then the
\* recycling method's statement, if it has one, is sent.
RecycleCheck(rec, is_closed, sql) ==
    IF is_closed
    THEN Ret(rec, "ErrMessage", 0, "Connection closed")
    ELSE IF sql = NoSql
         THEN Ret(rec, "Ok", 0, "")
         ELSE [rec EXCEPT !.pc = "recycle_query", !.sql = sql]

Recycle(t, w) ==
    /\ task[t].pc = "idle"
    /\ Exclusive(w)
    /\ Step(t, RecycleCheck([Call("recycle", w, NoKey) EXCEPT !.pre = client[w]],
                            client[w] = "closed", Query(recycling_method)))
    /\ UNCHANGED <<recycling_method, wrapper, client, strong, cache, caches,
                   txns, nextStmt, mutex, attached, removed, detached>>

\* Mutant of RecycleResult: a failed statement is sent a second time.
RecycleResult_Retries(rec, outcome) ==
    IF outcome = "Ok"
    THEN Ret(rec, "Ok", 0, "")
    ELSE IF rec.n < 2
         THEN rec
         ELSE Ret(rec, "ErrBackend", 0, outcome)

\* Manager::recycle after client.simple_query(sql).await: the statement ran
\* once on the connection and its outcome is recycle's outcome.
RecycleResult(rec, outcome) ==
    IF outcome = "Ok"
    THEN Ret(rec, "Ok", 0, "")
    ELSE Ret(rec, "ErrBackend", 0, outcome)

\* The record of a call after the connection answered it once more.
Answered(rec, outcome) == [rec EXCEPT !.n = @ + 1, !.pg = outcome]

\* Mutant of RecycleQuery: a recycle that fails takes the cache of its
\* wrapper off the registry.
RecycleQuery_DetachesOnError(t) ==
    /\ task[t].pc = "recycle_query"
    /\ \E outcome \in (IF client[task[t].w] = "open" THEN {"Ok"} ELSE {})
                         \cup PgErrors :
          /\ Step(t, RecycleResult(Answered(task[t], outcome), outcome))
          /\ caches' = IF outcome = "Ok" THEN caches
                       ELSE RegDetach(caches, task[t].w)
    /\ UNCHANGED <<recycling_method, wrapper, client, strong, cache,
                   txns, nextStmt, mutex, attached, removed, detached>>

\* The connection answers the statement recycle sent.
RecycleQuery(t) ==
    /\ task[t].pc = "recycle_query"
    /\ \E outcome \in (IF client[task[t].w] = "open" THEN {"Ok"} ELSE {})
                         \cup PgErrors :
          Step(t, RecycleResult(Answered(task[t], outcome), outcome))
    /\ UNCHANGED <<recycling_method, wrapper, client, strong, cache, caches,
                   txns, nextStmt, mutex, attached, removed, detached>>

\* Manager::detach: StatementCaches::detach of the wrapper's cache.
Detach(w) ==
    /\ mutex = 0
    /\ Exclusive(w)
    /\ caches' = RegDetach(caches, w)
    /\ removed' = [removed EXCEPT ![w] = @ + Len(caches) - Len(caches')]
    /\ detached' = [detached EXCEPT ![w] = TRUE]
    /\ Return(Ret(Call("detach", w, NoKey), "Ok", 0, ""))
    /\ UNCHANGED <<recycling_method, wrapper, client, strong, cache, txns,
                   nextStmt, mutex, attached>>

\* The owner drops the ClientWrapper: its Arc<StatementCache> goes with it.
\* Nothing in the wrapper refers to the manager, so the registry is not told.
DropWrapper(w) ==
    /\ Exclusive(w)
    /\ wrapper' = [wrapper EXCEPT ![w] = "dropped"]
    /\ strong' = [strong EXCEPT ![w] = @ - 1]
    /\ last' = Idle
    /\ UNCHANGED <<recycling_method, client, cache, caches, txns, nextStmt,
                   task, mutex, attached, removed, detached>>

\* The connection's background task ends: is_closed() turns true.
CloseConnection(w) ==
    /\ wrapper[w] = "alive"
    /\ client[w] = "open"
    /\ client' = [client EXCEPT ![w] = "closed"]
    /\ UNCHANGED <<recycling_method, wrapper, strong, cache, caches, txns,
                   nextStmt, task, last, mutex, attached, removed, detached>>

\* ------------------------------------------------ StatementCaches (registry)
\* Mutant of RegistryClear: entries that do not upgrade are taken off the list.
RegistryClear_Prunes ==
    /\ mutex = 0
    /\ cache' = RegClear(caches, cache)
    /\ caches' = SelectSeq(caches, Upgrade)
    /\ Return(Ret(Call("caches.clear", 0, NoKey), "Ok", 0, ""))
    /\ UNCHANGED <<recycling_method, wrapper, client, strong, txns,
                   nextStmt, mutex, attached, removed, detached>>

\* StatementCaches::clear, the whole call.
RegistryClear ==
    /\ mutex = 0
    /\ cache' = RegClear(caches, cache)
    /\ Return(Ret(Call("caches.clear", 0, NoKey), "Ok", 0, ""))
    /\ UNCHANGED <<recycling_method, wrapper, client, strong, caches, txns,
                   nextStmt, mutex, attached, removed, detached>>

\* StatementCaches::remove(query, types), the whole call.
RegistryRemove(query, types) ==
    /\ mutex = 0
    /\ LET k == StatementCacheKey(query, types)
       IN  /\ cache' = RegRemove(caches, cache, k)
           /\ Return(Ret(Call("caches.remove", 0, k), "Ok", 0, ""))
    /\ UNCHANGED <<recycling_method, wrapper, client, strong, caches, txns,
                   nextStmt, mutex, attached, removed, detached>>

\* ------------------------------- StatementCaches, one step of the loop at a time
\* StatementCaches::clear and ::remove take the registry's mutex.
RegistryLock(t, op, k) ==
    /\ task[t].pc = "idle"
    /\ mutex = 0
    /\ mutex' = t
    /\ Step(t, [Call(op, 0, k) EXCEPT !.pc = "reg_iter", !.i = 1])
    /\ UNCHANGED <<recycling_method, wrapper, client, strong, cache, caches,
                   txns, nextStmt, attached, removed, detached>>

ClearLock(t) == RegistryLock(t, "caches.clear", NoKey)
RemoveLock(t, query, types) ==
    RegistryLock(t, "caches.remove", StatementCacheKey(query, types))

\* `if let Some(cache) = cache.upgrade()`: an entry that upgrades gives the
\* loop an Arc of its own; one that does not is passed over.
RegistryUpgrade(t) ==
    /\ task[t].pc = "reg_iter"
    /\ task[t].i <= Len(caches)
    /\ LET c == caches[task[t].i]
       IN  IF Upgrade(c)
           THEN /\ strong' = [strong EXCEPT ![c] = @ + 1]
                /\ Step(t, [task[t] EXCEPT !.pc = "reg_apply", !.held = c])
           ELSE /\ Step(t, [task[t] EXCEPT !.i = @ + 1])
                /\ UNCHANGED strong
    /\ UNCHANGED <<recycling_method, wrapper, client, cache, caches, txns,
                   nextStmt, mutex, attached, removed, detached>>

\* `cache.clear()` / `cache.remove(query, types)` on the upgraded cache.
RegistryApply(t) ==
    /\ task[t].pc = "reg_apply"
    /\ cache' = [cache EXCEPT ![task[t].held] =
                    IF task[t].op = "caches.clear"
                    THEN CacheClear(@)
                    ELSE CacheRemove(@, task[t].k)]
    /\ Step(t, [task[t] EXCEPT !.pc = "reg_release"])
    /\ UNCHANGED <<recycling_method, wrapper, client, strong, caches, txns,
                   nextStmt, mutex, attached, removed, detached>>

\* Mutant of ReleaseUpgraded: the loop keeps the Arc it upgraded.
ReleaseUpgraded_Keeps(count) == count

\* The end of the `if let` body: the loop's Arc is dropped.
ReleaseUpgraded(count) == count - 1

RegistryRelease(t) ==
    /\ task[t].pc = "reg_release"
    /\ strong' = [strong EXCEPT ![task[t].held] = ReleaseUpgraded(@)]
    /\ Step(t, [task[t] EXCEPT !.pc = "reg_iter", !.held = 0, !.i = @ + 1])
    /\ UNCHANGED <<recycling_method, wrapper, client, cache, caches, txns,
                   nextStmt, mutex, attached, removed, detached>>

\* The loop is over: the mutex guard is dropped and the call returns.
RegistryUnlock(t) ==
    /\ task[t].pc = "reg_iter"
    /\ task[t].i > Len(caches)
    /\ mutex' = 0
    /\ Step(t, Ret(task[t], "Ok", 0, ""))
    /\ UNCHANGED <<recycling_method, wrapper, client, strong, cache, caches,
                   txns, nextStmt, attached, removed, detached>>

\* -------------------------------------------------- ClientWrapper, Transaction
\* prepare_typed up to its await: the cache lookup; a hit returns the cached
\* statement, a miss sends the prepare to the connection.
PrepareLookup(rec, found) ==
    IF found # 0
    THEN Ret(rec, "Ok", found, "")
    ELSE [rec EXCEPT !.pc = "prepare_await"]

\* ClientWrapper::prepare_typed (via = "client") and
\* Transaction::prepare_typed (via = "txn").
PrepareTyped(t, w, via, query, types) ==
    /\ task[t].pc = "idle"
    /\ CanUse(w, via)
    /\ LET k == StatementCacheKey(query, types)
       IN  Step(t, PrepareLookup([Call("prepare_typed", w, k) EXCEPT !.via = via],
                                 CacheGet(cache[CacheRef(w, via)], k)))
    /\ UNCHANGED <<recycling_method, wrapper, client, strong, cache, caches,
                   txns, nextStmt, mutex, attached, removed, detached>>

\* ClientWrapper::prepare / Transaction::prepare: prepare_typed with no types.
Prepare(t, w, via, query) == PrepareTyped(t, w, via, query, <<>>)

\* Mutant of PrepareStore: the insert happens before the `?`, so the answer
\* of a failed prepare is inserted too.
PrepareStore_CachesFailure(c, k, stmt) == CacheInsert(c, k, stmt)

\* prepare_typed after the await, the cache afterwards: `?` returns on an
\* error (stmt = 0) before the insert; a statement is inserted under the key.
PrepareStore(c, k, stmt) == IF stmt = 0 THEN c ELSE CacheInsert(c, k, stmt)

\* prepare_typed after the await, the call's result.
PrepareResult(rec, stmt, err) ==
    IF stmt = 0
    THEN Ret(rec, "ErrBackend", 0, err)
    ELSE Ret(rec, "Ok", stmt, "")

\* The connection answers the prepare: a new statement, or an error.
PrepareAwait(t) ==
    /\ task[t].pc = "prepare_await"
    /\ LET rec == task[t]
           c == CacheRef(rec.w, rec.via)
       IN  \/ /\ nextStmt <= MaxPrepares
              /\ client[rec.w] = "open"
              /\ cache' = [cache EXCEPT ![c] = PrepareStore(@, rec.k, nextStmt)]
              /\ Step(t, PrepareResult(Answered(rec, "Ok"), nextStmt, ""))
              /\ nextStmt' = nextStmt + 1
           \/ /\ \E e \in PgErrors :
                    /\ cache' = [cache EXCEPT ![c] = PrepareStore(@, rec.k, 0)]
                    /\ Step(t, PrepareResult(Answered(rec, e), 0, e))
              /\ UNCHANGED nextStmt
    /\ UNCHANGED <<recycling_method, wrapper, client, strong, caches, txns,
                   mutex, attached, removed, detached>>

\* The cache reference a transaction started on the wrapper gets:
\* `statement_cache: &self.statement_cache`.
WrapperCache(w) == w

\* Mutant of ParentCache: the nested transaction is bound to another cache.
ParentCache_Other(stack) == (stack[Len(stack)] % MaxWrappers) + 1

\* The cache reference a nested transaction gets: its parent's.
ParentCache(stack) == stack[Len(stack)]

\* Beginning a transaction on the wrapper: the stack of w afterwards.
BeginOn(w, ok) == IF ok THEN <<WrapperCache(w)>> ELSE <<>>

\* The result of a call that only passes on the connection's answer.
Answer(ok) == IF ok THEN "Ok" ELSE "ErrBackend"

\* ClientWrapper::transaction
Transaction(w) ==
    /\ Exclusive(w)
    /\ \E ok \in BOOLEAN :
          /\ ok => client[w] = "open"
          /\ txns' = [txns EXCEPT ![w] = BeginOn(w, ok)]
          /\ Return(Ret(Call("transaction", w, NoKey), Answer(ok), 0, ""))
    /\ UNCHANGED <<recycling_method, wrapper, client, strong, cache, caches,
                   nextStmt, mutex, attached, removed, detached>>

\* ClientWrapper::build_transaction, the setters, TransactionBuilder::start
BuildTransactionStart(w) ==
    /\ Exclusive(w)
    /\ \E ok \in BOOLEAN :
          /\ ok => client[w] = "open"
          /\ txns' = [txns EXCEPT ![w] = BeginOn(w, ok)]
          /\ Return(Ret(Call("build_transaction", w, NoKey), Answer(ok), 0, ""))
    /\ UNCHANGED <<recycling_method, wrapper, client, strong, cache, caches,
                   nextStmt, mutex, attached, removed, detached>>

\* Transaction::transaction: a nested transaction on the innermost one.
NestedTransaction(w) ==
    /\ TxnUsable(w)
    /\ ~HoldsRef(w)
    /\ Len(txns[w]) < MaxDepth
    /\ \E ok \in BOOLEAN :
          /\ ok => client[w] = "open"
          /\ txns' = [txns EXCEPT ![w] =
                IF ok THEN Append(@, ParentCache(@)) ELSE @]
          /\ Return(Ret(Call("txn.transaction", w, NoKey), Answer(ok), 0, ""))
    /\ UNCHANGED <<recycling_method, wrapper, client, strong, cache, caches,
                   nextStmt, mutex, attached, removed, detached>>

\* Transaction::commit / Transaction::rollback: the handle is consumed
\* whatever the connection answers.
Finish(w, how) ==
    /\ TxnUsable(w)
    /\ ~HoldsRef(w)
    /\ txns' = [txns EXCEPT ![w] = SubSeq(@, 1, Len(@) - 1)]
    /\ \E ok \in BOOLEAN :
          /\ ok => client[w] = "open"
          /\ Return(Ret(Call(how, w, NoKey), Answer(ok), 0, ""))
    /\ UNCHANGED <<recycling_method, wrapper, client, strong, cache, caches,
                   nextStmt, mutex, attached, removed, detached>>

Commit(w) == Finish(w, "commit")
Rollback(w) == Finish(w, "rollback")

\* ------------------------------------- the pub statement_cache of one client
\* Mutant of StatementCacheClear: the clear goes to the caches of all clients.
StatementCacheClear_All(w, via) ==
    /\ CanUse(w, via)
    /\ cache' = [v \in Wrappers |-> CacheClear(cache[v])]
    /\ Return(Ret([Call("cache.clear", w, NoKey) EXCEPT !.via = via], "Ok", 0, ""))
    /\ UNCHANGED <<recycling_method, wrapper, client, strong, caches, txns,
                   nextStmt, mutex, attached, removed, detached>>

\* StatementCache::clear on the statement_cache of a wrapper or transaction.
StatementCacheClear(w, via) ==
    /\ CanUse(w, via)
    /\ cache' = [cache EXCEPT ![CacheRef(w, via)] = CacheClear(@)]
    /\ Return(Ret([Call("cache.clear", w, NoKey) EXCEPT !.via = via], "Ok", 0, ""))
    /\ UNCHANGED <<recycling_method, wrapper, client, strong, caches, txns,
                   nextStmt, mutex, attached, removed, detached>>

\* StatementCache::remove on the statement_cache of a wrapper or transaction.
StatementCacheRemove(w, via, query, types) ==
    /\ CanUse(w, via)
    /\ LET k == StatementCacheKey(query, types)
           c == CacheRef(w, via)
       IN  /\ cache' = [cache EXCEPT ![c] = CacheRemove(@, k)]
           /\ Return(Ret([Call("cache.remove", w, k) EXCEPT !.via = via],
                         "Ok", CacheRemoved(cache[c], k), ""))
    /\ UNCHANGED <<recycling_method, wrapper, client, strong, caches, txns,
                   nextStmt, mutex, attached, removed, detached>>

\* StatementCache::size on the statement_cache of a wrapper or transaction.
StatementCacheSize(w, via) ==
    /\ CanUse(w, via)
    /\ Return(Ret([Call("cache.size", w, NoKey) EXCEPT !.via = via],
                  "Ok", CacheSize(cache[CacheRef(w, via)]), ""))
    /\ UNCHANGED <<recycling_method, wrapper, client, strong, cache, caches,
                   txns, nextStmt, mutex, attached, removed, detached>>

\* ----------------------------------------------------------- specifications
\* A manager made by Manager::new (the default configuration).
InitDefault == Init /\ recycling_method = "Fast"

\* The caches and the registry: connections are created, used through the
\* wrapper, detached and dropped, while the registry is cleared.
Next ==
    \/ \E w \in Wrappers : Create(w)
    \/ \E w \in Wrappers : Detach(w)
    \/ \E w \in Wrappers : DropWrapper(w)
    \/ RegistryClear
    \/ \E q \in Queries, ty \in TypeLists : RegistryRemove(q, ty)
    \/ \E t \in Tasks, w \in Wrappers, q \in Queries, ty \in TypeLists :
          PrepareTyped(t, w, "client", q, ty)
    \/ \E t \in Tasks, w \in Wrappers, q \in Queries : Prepare(t, w, "client", q)
    \/ \E t \in Tasks : PrepareAwait(t)
    \/ \E w \in Wrappers : StatementCacheClear(w, "client")
    \/ \E w \in Wrappers, q \in Queries, ty \in TypeLists :
          StatementCacheRemove(w, "client", q, ty)
    \/ \E w \in Wrappers : StatementCacheSize(w, "client")

Spec == InitDefault /\ [][Next]_vars

\* Transactions: statements are prepared through the wrapper and through the
\* (nested) transactions opened on it.
NextTxn ==
    \/ \E w \in Wrappers : Create(w)
    \/ \E w \in Wrappers : DropWrapper(w)
    \/ \E t \in Tasks, w \in Wrappers, via \in {"client", "txn"},
          q \in Queries, ty \in TypeLists : PrepareTyped(t, w, via, q, ty)
    \/ \E t \in Tasks, w \in Wrappers, via \in {"client", "txn"}, q \in Queries :
          Prepare(t, w, via, q)
    \/ \E t \in Tasks : PrepareAwait(t)
    \/ \E w \in Wrappers : Transaction(w)
    \/ \E w \in Wrappers : BuildTransactionStart(w)
    \/ \E w \in Wrappers : NestedTransaction(w)
    \/ \E w \in Wrappers : Commit(w)
    \/ \E w \in Wrappers : Rollback(w)
    \/ \E w \in Wrappers : StatementCacheClear(w, "txn")

SpecTxn == InitDefault /\ [][NextTxn]_vars

\* Recycling: the pool recycles, detaches and drops connections that may
\* close at any time, under every recycling method.
NextRecycle ==
    \/ \E w \in Wrappers : Create(w)
    \/ \E t \in Tasks, w \in Wrappers : Recycle(t, w)
    \/ \E t \in Tasks : RecycleQuery(t)
    \/ \E w \in Wrappers : CloseConnection(w)
    \/ \E w \in Wrappers : Detach(w)
    \/ \E w \in Wrappers : DropWrapper(w)
    \/ \E t \in Tasks, w \in Wrappers, q \in Queries : Prepare(t, w, "client", q)
    \/ \E t \in Tasks : PrepareAwait(t)

SpecRecycle == Init /\ [][NextRecycle]_vars

\* ------------------------------------------------------------------- claims
\* The last finished call is a recycle.
Recycled == last.op = "recycle"

\* C1: for every recycling method, a recycle of a connection whose
\* is_closed() is true fails with the message "Connection closed"; it never
\* succeeds.
C1_ClosedFails ==
    (Recycled /\ last.pre = "closed")
        => (last.ret = "ErrMessage" /\ last.msg = "Connection closed")

\* C1 happens: under a method that has a statement, a closed connection was
\* recycled and the recycle failed with the message.
C1_Witness ==
    /\ Recycled
    /\ last.pre = "closed"
    /\ recycling_method = "Clean"
    /\ last.ret = "ErrMessage"

\* C2: with RecyclingMethod = Fast no recycle ever sends a statement to the
\* connection, and a recycle succeeds exactly when is_closed() was false at
\* its check.
C2_FastNoQuery ==
    recycling_method = "Fast"
        => /\ \A t \in Tasks : task[t].pc # "recycle_query"
           /\ Recycled => /\ last.n = 0
                          /\ last.sql = NoSql
                          /\ (last.ret = "Ok") <=> (last.pre = "open")

\* C2 happens: under Fast an open connection was recycled with success.
C2_Witness ==
    /\ recycling_method = "Fast"
    /\ Recycled
    /\ last.pre = "open"
    /\ last.ret = "Ok"

\* C3: under a method that designates a statement, a recycle of a connection
\* that is not closed runs that statement exactly once; it succeeds when the
\* statement succeeds and fails with the statement's error, wrapped as the
\* backend failure, when the statement fails.
C3_OneAttempt ==
    (Recycled /\ last.pre = "open" /\ Query(recycling_method) # NoSql)
        => /\ last.n = 1
           /\ last.sql = Query(recycling_method)
           /\ (last.pg = "Ok") => (last.ret = "Ok")
           /\ (last.pg # "Ok") => (last.ret = "ErrBackend" /\ last.msg = last.pg)

\* C3 happens: a recycle under Verified ran its statement, which failed.
C3_Witness ==
    /\ recycling_method = "Verified"
    /\ Recycled
    /\ last.pre = "open"
    /\ last.n = 1
    /\ last.pg = "db error"
    /\ last.ret = "ErrBackend"

\* The cache the last finished call worked on.
LastCache == CacheRef(last'.w, last'.via)

\* In this step the connection answered the prepare of task t.
PrepareAnswered(t) == task[t].pc = "prepare_await" /\ task'[t].pc = "idle"

\* In this step a prepare_typed returned from its cache lookup.
LookupReturned == last' # last /\ last'.op = "prepare_typed" /\ last'.n = 0

\* C4: a prepare_typed whose key is cached (a first call cached it, nothing
\* cleared or removed it since) returns the cached statement of exactly that
\* key without a prepare on the connection: a successful first call leaves
\* its statement in the cache under the key, a call goes to the connection
\* only when the key is absent, and a call that returns from the lookup
\* returns the statement cached under its key and prepares nothing.
C4_SecondCallHits ==
    [][/\ \A t \in Tasks :
            (PrepareAnswered(t) /\ last'.ret = "Ok")
                => (last'.n = 1 /\ CacheGet(cache'[LastCache], last'.k) = last'.h)
       /\ \A t \in Tasks :
            (task[t].pc = "idle" /\ task'[t].pc = "prepare_await")
                => task'[t].k \notin
                     DOMAIN cache[CacheRef(task'[t].w, task'[t].via)].map
       /\ LookupReturned
            => /\ last'.ret = "Ok"
               /\ last'.k \in DOMAIN cache[LastCache].map
               /\ last'.h = cache[LastCache].map[last'.k]
               /\ nextStmt' = nextStmt
               /\ cache' = cache]_vars

\* C4 happens: a prepare_typed returned the cached statement without a
\* prepare on the connection, while the other types of the same query are
\* not cached.
C4_Witness ==
    /\ last.op = "prepare_typed"
    /\ last.n = 0
    /\ last.ret = "Ok"
    /\ last.h = CacheGet(cache[last.w], last.k)
    /\ last.h # 0
    /\ Cardinality(DOMAIN cache[last.w].map) = 1

\* C5: when the prepare on the connection fails, ClientWrapper::prepare_typed
\* and Transaction::prepare_typed return that error and leave the map and the
\* size of every cache as they were; nothing is cached for the key, so a call
\* returns without a prepare on the connection only for a key that is cached.
C5_FailureNotCached ==
    [][/\ \A t \in Tasks :
            (PrepareAnswered(t) /\ last'.pg # "Ok")
                => /\ last'.ret = "ErrBackend"
                   /\ last'.msg = last'.pg
                   /\ last'.n = 1
                   /\ cache' = cache
                   /\ nextStmt' = nextStmt
       /\ LookupReturned => last'.k \in DOMAIN cache[LastCache].map]_vars

\* C5 happens: a prepare through a transaction failed, and the next call for
\* the same key is waiting for the connection again.
C5_Witness ==
    \E t \in Tasks :
        /\ task[t].pc = "prepare_await"
        /\ task[t].via = "txn"
        /\ last.op = "prepare_typed"
        /\ last.via = "txn"
        /\ last.ret = "ErrBackend"
        /\ task[t].w = last.w
        /\ task[t].k = last.k

\* C6: every transaction opened on a wrapper, nested ones included, refers
\* to the wrapper's own cache: a prepare through a transaction returns what
\* the wrapper's cache holds for the key without a prepare on the
\* connection, a statement first prepared through a transaction is in the
\* wrapper's cache, and commit and rollback leave the caches as they are.
C6_SharedCache ==
    [][/\ \A w \in Wrappers : \A i \in 1..Len(txns'[w]) : txns'[w][i] = w
       /\ (LookupReturned /\ last'.via = "txn")
            => /\ last'.h # 0
               /\ last'.h = CacheGet(cache[last'.w], last'.k)
               /\ nextStmt' = nextStmt
       /\ \A t \in Tasks :
            (PrepareAnswered(t) /\ last'.via = "txn" /\ last'.ret = "Ok")
                => CacheGet(cache'[last'.w], last'.k) = last'.h
       /\ last'.op \in {"commit", "rollback"} => cache' = cache]_vars

\* C6 happens: a statement first prepared inside a nested transaction is in
\* the wrapper's cache.
C6_Witness ==
    /\ last.op = "prepare_typed"
    /\ last.via = "txn"
    /\ last.n = 1
    /\ last.ret = "Ok"
    /\ Len(txns[last.w]) = 2
    /\ CacheGet(cache[last.w], last.k) = last.h

\* Wrapper w's cache is attached: the registry has an entry for it.
Attached(cs, w) == Entries(cs, w) > 0

C8_DetachedUntouched ==
    [][/\ \A w \in Wrappers : detached'[w] => ~Attached(caches', w)
       /\ last'.op \in {"caches.clear", "caches.remove"}
            => \A w \in Wrappers : detached[w] => cache'[w] = cache[w]]_vars

\* C8 happens: the registry was cleared while a detached, live wrapper held
\* a cached statement, and the statement is still cached.
C8_Witness ==
    /\ last.op = "caches.clear"
    /\ \E w \in Wrappers :
         /\ detached[w]
         /\ wrapper[w] = "alive"
         /\ CacheSize(cache[w]) = 1
         /\ DOMAIN cache[w].map # {}

\* C9 (amended): every cache Manager::create makes is pushed onto the
\* registry exactly once, its entry is taken off exactly once, by the first
\* Manager::detach of its wrapper, and it is never pushed again; dropping a
\* wrapper takes nothing off, so the entry of a wrapper dropped without
\* detach stays in the registry.
C9_AttachedOnce ==
    \A w \in Wrappers :
        /\ attached[w] = (IF wrapper[w] = "none" THEN 0 ELSE 1)
        /\ removed[w] = (IF detached[w] THEN 1 ELSE 0)
        /\ Entries(caches, w) = attached[w] - removed[w]

\* C9 as claimed: by the time its wrapper is dropped a cache's entry has been
\* taken off the registry, which so never holds an entry of a dropped wrapper.
C9_Original ==
    \A w \in Wrappers :
        wrapper[w] = "dropped" => (removed[w] = 1 /\ ~Attached(caches, w))

\* C9 happens: one wrapper was detached and then dropped, another was dropped
\* without detach and its entry is still in the registry.
C9_Witness ==
    \E v, w \in Wrappers :
        /\ wrapper[v] = "dropped" /\ detached[v] /\ removed[v] = 1
        /\ wrapper[w] = "dropped" /\ ~detached[w] /\ Entries(caches, w) = 1

\* The registry's calls step by step, beside the owners of the wrappers:
\* a wrapper can be dropped while the loop of clear or remove is at any entry.
NextConc ==
    \/ \E w \in Wrappers : Create(w)
    \/ \E w \in Wrappers : Detach(w)
    \/ \E w \in Wrappers : DropWrapper(w)
    \/ \E t \in Tasks, w \in Wrappers, q \in Queries : Prepare(t, w, "client", q)
    \/ \E t \in Tasks : PrepareAwait(t)
    \/ \E t \in Tasks : ClearLock(t)
    \/ \E t \in Tasks, q \in Queries : RemoveLock(t, q, <<>>)
    \/ \E t \in Tasks : RegistryUpgrade(t)
    \/ \E t \in Tasks : RegistryApply(t)
    \/ \E t \in Tasks : RegistryRelease(t)
    \/ \E t \in Tasks : RegistryUnlock(t)

SpecConc == InitDefault /\ [][NextConc]_vars

\* C10 (amended): the registry stores weak references only.  A cache is
\* alive only if its wrapper is alive or the loop of a running clear() or
\* remove() is at its entry and holds the Arc it upgraded; the loop drops
\* that Arc before it goes on, so when no clear() or remove() is running
\* a cache is alive only if its wrapper is.  An entry that does not upgrade
\* is passed over: no cache changes and the call goes on to return normally.
C10_WeakOnly ==
    [][/\ \A w \in Wrappers :
            /\ strong'[w] = (IF wrapper'[w] = "alive" THEN 1 ELSE 0)
                              + Cardinality({t \in Tasks : task'[t].held = w})
            /\ mutex' = 0 => (strong'[w] > 0 => wrapper'[w] = "alive")
       /\ \A t \in Tasks :
            /\ task'[t].held # 0
                 => (mutex' = t /\ task'[t].held = caches'[task'[t].i])
            /\ (task[t].pc = "reg_iter" /\ task[t].i <= Len(caches)
                /\ strong[caches[task[t].i]] = 0 /\ task'[t] # task[t])
                 => /\ cache' = cache
                    /\ strong' = strong
                    /\ task'[t].pc = "reg_iter"
                    /\ task'[t].i = task[t].i + 1
       /\ last'.op \in {"caches.clear", "caches.remove"} => last'.ret = "Ok"]_vars

\* C10 as claimed: in every state a cache is alive only if its wrapper is.
C10_Original ==
    \A w \in Wrappers : strong[w] > 0 => wrapper[w] = "alive"

\* C10 happens: the loop of a clear() upgraded the entry of a wrapper, the
\* wrapper was dropped, and the loop, holding the only Arc, has cleared the
\* cache and is about to drop it.
C10_Witness ==
    \E t \in Tasks, w \in Wrappers :
        /\ task[t].op = "caches.clear"
        /\ task[t].pc = "reg_release"
        /\ task[t].held = w
        /\ wrapper[w] = "dropped"
        /\ strong[w] = 1
        /\ mutex = t

\* ------------------------------- StatementCache, one lock operation at a time
\* Threads that share the wrappers, their caches and the registry.
NumThreads == 2
Threads == 1..NumThreads
\* The wrappers the threads make and share.
MaxShared == 1
Shared == 1..MaxShared

\* What a reader would find in an entry of the HashMap while a writer is in
\* the middle of changing it.
Torn == -1

\* The cache a call works on: the entry a registry loop has upgraded, or the
\* statement_cache of the wrapper the call was made on.
Target(rec) ==
    IF rec.op \in {"caches.clear", "caches.remove"} THEN rec.held ELSE rec.w

\* The StatementCache method that takes the write lock in a call.
WriteKind(rec) ==
    CASE rec.op \in {"cache.clear", "caches.clear"} -> "clear"
      [] rec.op \in {"cache.remove", "caches.remove"} -> "remove"
      [] OTHER -> "insert"

\* A thread is inside `self.map.write()` / `self.map.read()` of cache c.
WriteLocked(c) ==
    \E t \in DOMAIN task :
        task[t].pc \in {"map_write", "size_write"} /\ Target(task[t]) = c
ReadLocked(c) ==
    \E t \in DOMAIN task : task[t].pc = "map_read" /\ Target(task[t]) = c

\* Mutant of CanRead: get looks at the map without the read lock.
CanRead_NoLock(c) == TRUE

\* RwLock::read returns: no writer is in.
CanRead(c) == ~WriteLocked(c)

\* Mutant of CanWrite: writers do not exclude each other.
CanWrite_AmongWriters(c) == ~ReadLocked(c)

\* RwLock::write returns: nobody is in.
CanWrite(c) == ~WriteLocked(c) /\ ~ReadLocked(c)

\* No thread is in a call on wrapper w (its owner can take `&mut` or drop it).
Quiet(w) == \A t \in DOMAIN task : task[t].pc # "idle" => task[t].w # w

\* The map while the HashMap method of kind `kind` is changing the entries
\* it touches.
MapBegin(m, kind, k) ==
    CASE kind = "insert" -> MapInsert(m, k, Torn)
      [] kind = "remove" -> [k2 \in DOMAIN m |-> IF k2 = k THEN Torn ELSE m[k2]]
      [] OTHER -> [k2 \in DOMAIN m |-> Torn]

\* Mutant of MapEnd: insert stores nothing under the key.
MapEnd_StoresNothing(m, kind, k, h) ==
    CASE kind = "insert" -> MapRemove(m, k)
      [] kind = "remove" -> MapRemove(m, k)
      [] OTHER -> EmptyMap

\* The map when HashMap::insert / remove / clear has returned.
MapEnd(m, kind, k, h) ==
    CASE kind = "insert" -> MapInsert(m, k, h)
      [] kind = "remove" -> MapRemove(m, k)
      [] OTHER -> EmptyMap

\* Mutant of SizeEnd: insert counts every call, not only new keys.
SizeEnd_CountsOverwrite(n, kind, found) ==
    CASE kind = "insert" -> n + 1
      [] kind = "remove" -> IF found = "Some" THEN FetchSub(n) ELSE n
      [] OTHER -> 0

\* Mutant of SizeEnd: remove counts every call, not only keys it found.
SizeEnd_CountsMiss(n, kind, found) ==
    CASE kind = "insert" -> IF found = "None" THEN n + 1 ELSE n
      [] kind = "remove" -> FetchSub(n)
      [] OTHER -> 0

\* The counter after the method: fetch_add(1) if insert found no old value,
\* fetch_sub(1) if remove found one, store(0) for clear.
SizeEnd(n, kind, found) ==
    CASE kind = "insert" -> IF found = "None" THEN n + 1 ELSE n
      [] kind = "remove" -> IF found = "Some" THEN FetchSub(n) ELSE n
      [] OTHER -> 0

\* prepare_typed on the wrapper: the call starts with statement_cache.get,
\* which asks for the read lock of the map.
PrepareTypedCall(t, w, query, types) ==
    /\ task[t].pc = "idle"
    /\ Usable(w)
    /\ Step(t, [Call("prepare_typed", w, StatementCacheKey(query, types))
                  EXCEPT !.pc = "read_wait", !.via = "client"])
    /\ UNCHANGED <<recycling_method, wrapper, client, strong, cache, caches,
                   txns, nextStmt, mutex, attached, removed, detached>>

\* StatementCache::get: `self.map.read()` returns.
ReadLock(t) ==
    /\ task[t].pc = "read_wait"
    /\ CanRead(Target(task[t]))
    /\ Step(t, [task[t] EXCEPT !.pc = "map_read"])
    /\ UNCHANGED <<recycling_method, wrapper, client, strong, cache, caches,
                   txns, nextStmt, mutex, attached, removed, detached>>

\* StatementCache::get: the lookup, the clone of the statement, the end of
\* the read guard; prepare_typed returns a hit and goes to the connection
\* on a miss.
ReadUnlock(t) ==
    /\ task[t].pc = "map_read"
    /\ Step(t, PrepareLookup(task[t],
                             CacheGet(cache[Target(task[t])], task[t].k)))
    /\ UNCHANGED <<recycling_method, wrapper, client, strong, cache, caches,
                   txns, nextStmt, mutex, attached, removed, detached>>

\* The connection answers the prepare: an error is returned by `?`, a
\* statement goes on to statement_cache.insert.
PrepareAnswer(t) ==
    /\ task[t].pc = "prepare_await"
    /\ \/ /\ nextStmt <= MaxPrepares
          /\ client[task[t].w] = "open"
          /\ Step(t, [Answered(task[t], "Ok") EXCEPT !.pc = "write_wait",
                                                     !.h = nextStmt])
          /\ nextStmt' = nextStmt + 1
       \/ /\ \E e \in PgErrors : Step(t, PrepareResult(Answered(task[t], e), 0, e))
          /\ UNCHANGED nextStmt
    /\ UNCHANGED <<recycling_method, wrapper, client, strong, cache, caches,
                   txns, mutex, attached, removed, detached>>

\* A call of a method of the pub statement_cache that takes the write lock.
WriteCall(t, op, w, k) ==
    /\ task[t].pc = "idle"
    /\ Usable(w)
    /\ Step(t, [Call(op, w, k) EXCEPT !.pc = "write_wait", !.via = "client"])
    /\ UNCHANGED <<recycling_method, wrapper, client, strong, cache, caches,
                   txns, nextStmt, mutex, attached, removed, detached>>

ClearCall(t, w) == WriteCall(t, "cache.clear", w, NoKey)
RemoveCall(t, w, query, types) ==
    WriteCall(t, "cache.remove", w, StatementCacheKey(query, types))

\* `self.map.write()` returns and the HashMap method starts: what it finds
\* under the key is what it will return.
WriteLock(t) ==
    /\ task[t].pc = "write_wait"
    /\ CanWrite(Target(task[t]))
    /\ LET rec == task[t]
           c == Target(rec)
           kind == WriteKind(rec)
       IN  /\ cache' = [cache EXCEPT ![c].map = MapBegin(@, kind, rec.k)]
           /\ Step(t, [rec EXCEPT
                         !.pc = "map_write",
                         !.pre = IF kind = "clear" THEN "none"
                                 ELSE IF rec.k \in DOMAIN cache[c].map
                                      THEN "Some" ELSE "None",
                         !.h = IF kind = "remove"
                               THEN CacheGet(cache[c], rec.k) ELSE @])
    /\ UNCHANGED <<recycling_method, wrapper, client, strong, caches, txns,
                   nextStmt, mutex, attached, removed, detached>>

\* Mutant of MapWrite: inside the write lock of the map the method goes to
\* the registry, whose mutex it needs to be free.
MapWrite_NeedsMutex(t) ==
    /\ task[t].pc = "map_write"
    /\ mutex \in {0, t}
    /\ LET rec == task[t]
       IN  /\ cache' = [cache EXCEPT ![Target(rec)].map =
                           MapEnd(@, WriteKind(rec), rec.k, rec.h)]
           /\ Step(t, [rec EXCEPT !.pc = "size_write"])
    /\ UNCHANGED <<recycling_method, wrapper, client, strong, caches, txns,
                   nextStmt, mutex, attached, removed, detached>>

\* The HashMap method returns.
MapWrite(t) ==
    /\ task[t].pc = "map_write"
    /\ LET rec == task[t]
       IN  /\ cache' = [cache EXCEPT ![Target(rec)].map =
                           MapEnd(@, WriteKind(rec), rec.k, rec.h)]
           /\ Step(t, [rec EXCEPT !.pc = "size_write"])
    /\ UNCHANGED <<recycling_method, wrapper, client, strong, caches, txns,
                   nextStmt, mutex, attached, removed, detached>>

\* The counter is updated and the write guard dropped: the method returns,
\* to its caller or to the loop of the registry.
SizeWrite(t) ==
    /\ task[t].pc = "size_write"
    /\ LET rec == task[t]
       IN  /\ cache' = [cache EXCEPT ![Target(rec)].size =
                           SizeEnd(@, WriteKind(rec), rec.pre)]
           /\ Step(t, IF rec.op \in {"caches.clear", "caches.remove"}
                      THEN [rec EXCEPT !.pc = "reg_release"]
                      ELSE Ret(rec, "Ok", rec.h, ""))
    /\ UNCHANGED <<recycling_method, wrapper, client, strong, caches, txns,
                   nextStmt, mutex, attached, removed, detached>>

\* The loop of the registry calls cache.clear() / cache.remove(query, types).
RegistryCall(t) ==
    /\ task[t].pc = "reg_apply"
    /\ Step(t, [task[t] EXCEPT !.pc = "write_wait"])
    /\ UNCHANGED <<recycling_method, wrapper, client, strong, cache, caches,
                   txns, nextStmt, mutex, attached, removed, detached>>

\* StatementCaches::clear / ::remove is called: the thread asks for the
\* registry's mutex.
RegistryStart(t, op, k) ==
    /\ task[t].pc = "idle"
    /\ Step(t, [Call(op, 0, k) EXCEPT !.pc = "mutex_wait"])
    /\ UNCHANGED <<recycling_method, wrapper, client, strong, cache, caches,
                   txns, nextStmt, mutex, attached, removed, detached>>

ClearStart(t) == RegistryStart(t, "caches.clear", NoKey)
RemoveStart(t, query, types) ==
    RegistryStart(t, "caches.remove", StatementCacheKey(query, types))

\* `self.caches.lock()` returns: the loop starts at the first entry.
MutexLock(t) ==
    /\ task[t].pc = "mutex_wait"
    /\ mutex = 0
    /\ mutex' = t
    /\ Step(t, [task[t] EXCEPT !.pc = "reg_iter", !.i = 1])
    /\ UNCHANGED <<recycling_method, wrapper, client, strong, cache, caches,
                   txns, nextStmt, attached, removed, detached>>

\* Manager::detach and the drop of a wrapper, by an owner no thread is
\* borrowing the wrapper from.
QuietDetach(w) == Quiet(w) /\ Detach(w)
QuietDrop(w) == Quiet(w) /\ DropWrapper(w)

\* A manager made by Manager::new, used from NumThreads threads.
InitThreads ==
    /\ recycling_method = "Fast"
    /\ wrapper = [w \in Wrappers |-> "none"]
    /\ client = [w \in Wrappers |-> "none"]
    /\ strong = [w \in Wrappers |-> 0]
    /\ cache = [w \in Wrappers |-> NewCache]
    /\ caches = <<>>
    /\ txns = [w \in Wrappers |-> <<>>]
    /\ nextStmt = 1
    /\ task = [t \in Threads |-> Idle]
    /\ last = Idle
    /\ mutex = 0
    /\ attached = [w \in Wrappers |-> 0]
    /\ removed = [w \in Wrappers |-> 0]
    /\ detached = [w \in Wrappers |-> FALSE]

\* The steps of thread t.
ThreadStep(t) ==
    \/ \E w \in Shared, q \in Queries : PrepareTypedCall(t, w, q, <<>>)
    \/ ReadLock(t)
    \/ ReadUnlock(t)
    \/ PrepareAnswer(t)
    \/ \E w \in Shared : ClearCall(t, w)
    \/ \E w \in Shared, q \in Queries : RemoveCall(t, w, q, <<>>)
    \/ WriteLock(t)
    \/ MapWrite(t)
    \/ SizeWrite(t)
    \/ ClearStart(t)
    \/ \E q \in Queries : RemoveStart(t, q, <<>>)
    \/ MutexLock(t)
    \/ RegistryUpgrade(t)
    \/ RegistryCall(t)
    \/ RegistryRelease(t)
    \/ RegistryUnlock(t)

NextLocks ==
    \/ \E w \in Shared : Create(w)
    \/ \E w \in Shared : QuietDetach(w)
    \/ \E w \in Shared : QuietDrop(w)
    \/ \E w \in Shared : StatementCacheSize(w, "client")
    \/ \E t \in Threads : ThreadStep(t)

SpecLocks == InitThreads /\ [][NextLocks]_vars

\* Number of distinct keys in the map of cache c.
KeyCount(c) == Cardinality(DOMAIN c.map)

\* C11 (amended): whenever no insert, remove or clear is inside the write
\* lock of a cache, its counter equals the number of distinct keys in its
\* map, and a size() that returns at such a moment returns that number.
C11_SizeIsKeyCount ==
    [][/\ \A w \in Wrappers :
            ~WriteLocked(w)' => CacheSize(cache'[w]) = KeyCount(cache'[w])
       /\ (last'.op = "cache.size" /\ last' # last /\ ~WriteLocked(last'.w))
            => last'.h = KeyCount(cache[last'.w])]_vars

\* C11 as claimed: in every state the counter equals the number of keys.
C11_Original ==
    \A w \in Wrappers : CacheSize(cache[w]) = KeyCount(cache[w])

\* C11 happens: size() returned 1 for a cache with one key, after two
\* inserts of that key, while the other thread waits for the write lock.
C11_Witness ==
    /\ last.op = "cache.size"
    /\ last.h = 1
    /\ nextStmt = 3
    /\ ~WriteLocked(last.w)
    /\ KeyCount(cache[last.w]) = 1
    /\ \E k \in DOMAIN cache[last.w].map : cache[last.w].map[k] = 2
    /\ \E t \in Threads : task[t].pc = "write_wait"

\* Thread t takes the step from pc `from` to pc `to` of a method of `kind`.
Takes(t, kind, from, to) ==
    /\ task[t].pc = from
    /\ WriteKind(task[t]) = kind
    /\ task'[t] # task[t]
    /\ (IF task'[t].pc = "idle" THEN "idle" ELSE task'[t].pc) = to

\* Thread t is inside the write lock of a cache for a method of `kind`.
Inside(t, kind) ==
    /\ task[t].pc \in {"map_write", "size_write"}
    /\ WriteKind(task[t]) = kind

\* The step leaves every key of cache c other than k as it was.
OtherKeysKept(c, k) ==
    /\ DOMAIN cache'[c].map \ {k} = DOMAIN cache[c].map \ {k}
    /\ \A k2 \in DOMAIN cache[c].map \ {k} : cache'[c].map[k2] = cache[c].map[k2]

\* C12: insert(query, types, handle) finds the key absent or present when it
\* gets the write lock; from there to its return only it changes the cache,
\* the counter goes up by exactly 1 if the key was absent and stays as it
\* was if the key was present, the other keys keep their handles, and at the
\* return get(query, types) gives the handle just inserted.
C12_InsertCounts ==
    [][\A t \in Threads :
        LET rec == task[t]
            c == Target(rec)
        IN  /\ Takes(t, "insert", "write_wait", "map_write")
                 => /\ task'[t].pre = (IF rec.k \in DOMAIN cache[c].map
                                        THEN "Some" ELSE "None")
                    /\ CacheSize(cache[c]) = KeyCount(cache[c])
                    /\ CacheSize(cache'[c]) = CacheSize(cache[c])
                    /\ OtherKeysKept(c, rec.k)
            /\ (Inside(t, "insert") /\ task'[t] = task[t])
                 => cache'[c] = cache[c]
            /\ Takes(t, "insert", "map_write", "size_write")
                 => /\ CacheSize(cache'[c]) = CacheSize(cache[c])
                    /\ OtherKeysKept(c, rec.k)
                    /\ task'[t].pre = rec.pre
            /\ Takes(t, "insert", "size_write", "idle")
                 => /\ rec.pre = "None"
                         => CacheSize(cache'[c]) = CacheSize(cache[c]) + 1
                    /\ rec.pre = "Some"
                         => CacheSize(cache'[c]) = CacheSize(cache[c])
                    /\ cache'[c].map = cache[c].map
                    /\ rec.k \in DOMAIN cache'[c].map
                    /\ cache'[c].map[rec.k] = rec.h
                    /\ CacheGet(cache'[c], rec.k) = rec.h
                    /\ last'.ret = "Ok" /\ last'.h = rec.h]_vars

\* C12 happens: an insert overwrote the handle of a key that was already
\* cached (two prepares of the key had missed): one key, size 1, the new
\* handle.
C12_Witness ==
    /\ last.op = "prepare_typed"
    /\ last.pre = "Some"
    /\ last.h = 2
    /\ ~WriteLocked(last.w)
    /\ CacheSize(cache[last.w]) = 1
    /\ CacheGet(cache[last.w], last.k) = 2

\* C13: remove(query, types) finds the key absent or present when it gets
\* the write lock; from there to its return only it changes the cache.  On an
\* absent key the map and the counter stay as they were and None is
\* returned; on a present key that key alone is deleted, the counter goes
\* down by exactly 1 and the handle that was stored is returned.
C13_RemoveCounts ==
    [][\A t \in Threads :
        LET rec == task[t]
            c == Target(rec)
        IN  /\ Takes(t, "remove", "write_wait", "map_write")
                 => /\ task'[t].pre = (IF rec.k \in DOMAIN cache[c].map
                                        THEN "Some" ELSE "None")
                    /\ task'[t].h = (IF rec.k \in DOMAIN cache[c].map
                                      THEN cache[c].map[rec.k] ELSE 0)
                    /\ task'[t].h # Torn
                    /\ CacheSize(cache[c]) = KeyCount(cache[c])
                    /\ CacheSize(cache'[c]) = CacheSize(cache[c])
                    /\ OtherKeysKept(c, rec.k)
                    /\ rec.k \notin DOMAIN cache[c].map => cache'[c] = cache[c]
            /\ (Inside(t, "remove") /\ task'[t] = task[t])
                 => cache'[c] = cache[c]
            /\ Takes(t, "remove", "map_write", "size_write")
                 => /\ CacheSize(cache'[c]) = CacheSize(cache[c])
                    /\ OtherKeysKept(c, rec.k)
                    /\ rec.k \notin DOMAIN cache'[c].map
                    /\ rec.pre = "None" => cache'[c] = cache[c]
                    /\ task'[t].pre = rec.pre /\ task'[t].h = rec.h
            /\ (task[t].pc = "size_write" /\ WriteKind(rec) = "remove"
                /\ task'[t] # task[t])
                 => /\ rec.pre = "None" => cache'[c] = cache[c]
                    /\ rec.pre = "Some"
                         => CacheSize(cache'[c]) = CacheSize(cache[c]) - 1
                    /\ cache'[c].map = cache[c].map
                    /\ rec.op = "cache.remove"
                         => /\ last'.ret = "Ok"
                            /\ last'.h = rec.h
                            /\ (rec.pre = "None") <=> (last'.h = 0)]_vars

\* C13 happens: remove of a cached key returned, with the stored handle,
\* from a cache that held two keys; one key and size 1 are left.
C13_Witness ==
    /\ last.op = "cache.remove"
    /\ last.pre = "Some"
    /\ last.h \in Handles
    /\ ~WriteLocked(last.w)
    /\ last.k \notin DOMAIN cache[last.w].map
    /\ KeyCount(cache[last.w]) = 1
    /\ CacheSize(cache[last.w]) = 1

\* C14: a get(query, types) is never inside the map together with a clear
\* (or any other writer), whoever called it; it returns None only if the key
\* is not in the map it read, and otherwise the complete handle stored under
\* exactly that key.
C14_GetSeesWholeEntries ==
    [][/\ \A w \in Wrappers : ~(ReadLocked(w)' /\ WriteLocked(w)')
       /\ \A t \in Threads :
            (task[t].pc = "map_read" /\ task'[t] # task[t])
              => LET c == Target(task[t])
                     k == task[t].k
                 IN  IF task'[t].pc = "prepare_await"
                     THEN k \notin DOMAIN cache[c].map
                     ELSE /\ task'[t].pc = "idle"
                          /\ last'.op = "prepare_typed"
                          /\ last'.k = k
                          /\ last'.ret = "Ok"
                          /\ k \in DOMAIN cache[c].map
                          /\ last'.h = cache[c].map[k]
                          /\ last'.h \in Handles]_vars

\* C14 happens: a get is inside the map of a cache that holds its key, and
\* the registry-wide clear() of another thread is at the cache's entry,
\* waiting for the write lock.
C14_Witness ==
    \E t, u \in Threads :
        /\ task[t].pc = "map_read"
        /\ task[t].k \in DOMAIN cache[Target(task[t])].map
        /\ task[u].op = "caches.clear"
        /\ task[u].pc = "write_wait"
        /\ Target(task[u]) = Target(task[t])

\* C15: the registry-wide remove(query, types), run as one step, leaves the
\* list as it was; in every attached cache that is still alive the key is
\* gone afterwards, the other keys are as they were, and the size is lower
\* by 1 if the cache held the key and unchanged if not; every other cache
\* (detached, or dead) is as it was.
C15_RemoveEverywhere ==
    [][last'.op = "caches.remove"
         => /\ last'.ret = "Ok"
            /\ caches' = caches
            /\ \A w \in Wrappers :
                 IF strong[w] > 0 /\ Attached(caches, w)
                 THEN /\ last'.k \notin DOMAIN cache'[w].map
                      /\ OtherKeysKept(w, last'.k)
                      /\ CacheSize(cache'[w]) =
                           CacheSize(cache[w])
                             - (IF last'.k \in DOMAIN cache[w].map THEN 1 ELSE 0)
                 ELSE cache'[w] = cache[w]]_vars

\* C15 happens: with two attached live caches, one holding the key and one
\* holding another key, remove(query, types) returned: the first is empty,
\* the second still has its key and size 1.
C15_Witness ==
    /\ last.op = "caches.remove"
    /\ nextStmt = 3
    /\ \E w, v \in Wrappers :
         /\ w # v
         /\ wrapper[w] = "alive" /\ Attached(caches, w)
         /\ wrapper[v] = "alive" /\ Attached(caches, v)
         /\ cache[w] = NewCache
         /\ CacheSize(cache[v]) = 1
         /\ DOMAIN cache[v].map # {}
         /\ last.k \notin DOMAIN cache[v].map

\* C16: clear() and remove(query, types) on the statement_cache of one
\* wrapper leave the cache of every other wrapper and the list of the
\* registry as they were; the wrapper's own cache is empty after clear and
\* without the key after remove.
C16_OneCacheOnly ==
    [][last'.op \in {"cache.clear", "cache.remove"}
         => /\ caches' = caches
            /\ \A v \in Wrappers \ {last'.w} : cache'[v] = cache[v]
            /\ last'.op = "cache.clear" => cache'[last'.w] = NewCache
            /\ last'.op = "cache.remove"
                 => /\ last'.k \notin DOMAIN cache'[last'.w].map
                    /\ OtherKeysKept(last'.w, last'.k)]_vars

\* C16 happens: clear() on one wrapper's statement_cache returned, and the
\* other wrapper, attached to the same registry, still has its statement.
C16_Witness ==
    /\ last.op = "cache.clear"
    /\ cache[last.w] = NewCache
    /\ nextStmt = 3
    /\ \E v \in Wrappers \ {last.w} :
         /\ wrapper[v] = "alive"
         /\ Attached(caches, v)
         /\ Attached(caches, last.w)
         /\ CacheSize(cache[v]) = 1

\* The position of the entry of cache c in the list cs (0: none).
Pos(cs, c) ==
    IF \E i \in 1..Len(cs) : cs[i] = c
    THEN CHOOSE i \in 1..Len(cs) : cs[i] = c
    ELSE 0

C18_PassesKeepList ==
    [][/\ last'.op \in {"caches.clear", "caches.remove"}
            => /\ Len(caches') = Len(caches)
               /\ \A i \in 1..Len(caches) : caches'[i] = caches[i]
       /\ \A w \in Wrappers :
            Entries(caches', w) < Entries(caches, w)
              => (last'.op = "detach" /\ last'.w = w)
       /\ \A w \in Wrappers :
            (wrapper[w] = "dropped" /\ Attached(caches, w))
              => Attached(caches', w)]_vars

\* C18 happens: a registry-wide clear() returned with the entry of a wrapper
\* that was dropped without detach first in the list, before a live one.
C18_Witness ==
    /\ last.op = "caches.clear"
    /\ Len(caches) = 2
    /\ wrapper[caches[1]] = "dropped"
    /\ ~detached[caches[1]]
    /\ wrapper[caches[2]] = "alive"

\* The threads inside the write lock of cache c.
Writers(c) ==
    {t \in DOMAIN task :
        task[t].pc \in {"map_write", "size_write"} /\ Target(task[t]) = c}

\* C19: the counter of a cache changes only in a step of the one thread
\* that is inside the cache's write lock; the counter differs from the
\* number of keys, and a size() returns a number other than the number of
\* keys, only while a thread is inside the write lock; and the counter
\* never wraps around below 0: it is at most the number of statements
\* prepared.
C19_CounterUnderWriteLock ==
    [][/\ \A w \in Wrappers :
            /\ CacheSize(cache'[w]) # CacheSize(cache[w])
                 => \E t \in Writers(w) :
                      /\ Writers(w) = {t}
                      /\ task[t].pc = "size_write"
                      /\ task'[t] # task[t]
            /\ CacheSize(cache'[w]) # KeyCount(cache'[w]) => Writers(w)' # {}
            /\ CacheSize(cache'[w]) \in 0..MaxPrepares
       /\ (last'.op = "cache.size" /\ last' # last
           /\ last'.h # KeyCount(cache[last'.w]))
            => Writers(last'.w) # {}]_vars

\* C19 happens: remove has taken the key out of the map and not yet lowered
\* the counter, and a size() by the other thread returned the old count.
C19_Witness ==
    /\ last.op = "cache.size"
    /\ last.h = 1
    /\ cache[last.w].size = 1
    /\ KeyCount(cache[last.w]) = 0
    /\ \E t \in Writers(last.w) :
         /\ task[t].pc = "size_write"
         /\ WriteKind(task[t]) = "remove"
         /\ task[t].pre = "Some"

\* The steps in which thread t gets a lock it asked for.
Acquire(t) == ReadLock(t) \/ WriteLock(t) \/ MutexLock(t)

\* The steps in which thread t goes on in a call without asking for a lock.
GoOn(t) ==
    \/ ReadUnlock(t)
    \/ PrepareAnswer(t)
    \/ MapWrite(t)
    \/ SizeWrite(t)
    \/ RegistryUpgrade(t)
    \/ RegistryCall(t)
    \/ RegistryRelease(t)
    \/ RegistryUnlock(t)

\* Fair scheduling: a thread that can go on does, and a thread that asks for
\* a lock that is free again and again gets it.
SpecLocksFair ==
    /\ InitThreads
    /\ [][NextLocks]_vars
    /\ \A t \in Threads : WF_vars(GoOn(t)) /\ SF_vars(Acquire(t))

\* Thread t is in a call.
Busy(t) == task[t].pc # "idle"

\* C20: the registry's mutex is held only by a thread in clear() or remove()
\* of the registry, which took it before any lock of a map; whenever a call
\* is in progress some thread in a call can take a step; and under fair
\* scheduling every call that has started returns.
C20_NoDeadlock ==
    /\ [](\A t \in Threads :
            /\ mutex = t
                 => /\ task[t].op \in {"caches.clear", "caches.remove"}
                    /\ task[t].pc \notin {"idle", "mutex_wait"}
            /\ \A w \in Wrappers :
                 (t \in Writers(w) \/ (task[t].pc = "map_read" /\ Target(task[t]) = w))
                   => /\ task[t].pc # "mutex_wait"
                      /\ mutex # t => task[t].op \notin {"caches.clear", "caches.remove"})
    /\ []((\E t \in Threads : Busy(t))
            => \E t \in Threads : Busy(t) /\ ENABLED (GoOn(t) \/ Acquire(t)))
    /\ \A t \in Threads : Busy(t) ~> ~Busy(t)

\* C20 happens: the registry-wide clear() of one thread holds the mutex and
\* waits for the write lock of a cache while the other thread is inside that
\* lock in a remove() on the statement_cache.
C20_Witness ==
    \E t, u \in Threads :
        /\ mutex = u
        /\ task[u].op = "caches.clear"
        /\ task[u].pc = "write_wait"
        /\ task[t].op = "cache.remove"
        /\ task[t].pc = "map_write"
        /\ Target(task[t]) = Target(task[u])

\* Thread u is in a prepare_typed for the key of rec on the cache of rec,
\* has missed the cache and has not yet asked for its insert's lock to be
\* released: its own insert is still to come or under way.
Racing(u, rec) ==
    /\ task[u].op = "prepare_typed"
    /\ task[u].w = rec.w
    /\ task[u].k = rec.k
    /\ task[u].pc \in {"prepare_await", "write_wait"}

\* C21: each prepare_typed that missed the cache sends its own prepare to the
\* connection.  When the insert of one of two racing calls for a key
\* returns first, it finds the key absent and the counter goes up by 1;
\* when the insert of a call finds the key already there (the other call's
\* insert came first), the counter stays as it is; either way the cache
\* then holds one entry for the key, the handle of this last insert, and
\* the counter equals the number of keys.
C21_RacingPreparesCountOnce ==
    [][\A t \in Threads :
        Takes(t, "insert", "size_write", "idle")
          => LET rec == task[t]
                 c == Target(rec)
             IN  /\ rec.n = 1 /\ rec.pg = "Ok"
                 /\ rec.h \in Handles
                 /\ \A u \in Threads \ {t} :
                      Racing(u, rec) => task[u].h # rec.h
                 /\ (rec.pre = "None" /\ \E u \in Threads \ {t} : Racing(u, rec))
                      => CacheSize(cache'[c]) = CacheSize(cache[c]) + 1
                 /\ rec.pre = "Some"
                      => CacheSize(cache'[c]) = CacheSize(cache[c])
                 /\ cache'[c].map[rec.k] = rec.h
                 /\ CacheSize(cache'[c]) = KeyCount(cache'[c])
                 /\ last'.h = rec.h]_vars

\* C21 happens: two prepare_typed calls for one key both missed and both
\* prepared; the first has returned handle 1 with the counter at 1, and the
\* second, holding handle 2, has put it over the first and is about to
\* return with the counter still at 1.
C21_Witness ==
    \E t \in Threads :
        /\ task[t].op = "prepare_typed"
        /\ task[t].pc = "size_write"
        /\ task[t].pre = "Some"
        /\ task[t].h = 2
        /\ last.op = "prepare_typed"
        /\ last.w = task[t].w
        /\ last.k = task[t].k
        /\ last.pre = "None"
        /\ last.h = 1
        /\ cache[task[t].w].map[task[t].k] = 2
        /\ KeyCount(cache[task[t].w]) = 1
        /\ CacheSize(cache[task[t].w]) = 1

\* StatementCaches::clear / ::remove is called, as in RegistryStart; the
\* record notes in n the number of the next statement the server will hand
\* out: the statements with lower numbers were prepared before the call
\* began.
RegistryStartAt(t, op, k) ==
    /\ task[t].pc = "idle"
    /\ Step(t, [Call(op, 0, k) EXCEPT !.pc = "mutex_wait", !.n = nextStmt])
    /\ UNCHANGED <<recycling_method, wrapper, client, strong, cache, caches,
                   txns, nextStmt, mutex, attached, removed, detached>>

\* Prepares on the wrappers beside registry-wide clear() and remove().
NextStale ==
    \/ \E w \in Shared : Create(w)
    \/ \E w \in Shared : QuietDetach(w)
    \/ \E t \in Threads, w \in Shared, q \in Queries :
         PrepareTypedCall(t, w, q, <<>>)
    \/ \E t \in Threads : ReadLock(t)
    \/ \E t \in Threads : ReadUnlock(t)
    \/ \E t \in Threads : PrepareAnswer(t)
    \/ \E t \in Threads : WriteLock(t)
    \/ \E t \in Threads : MapWrite(t)
    \/ \E t \in Threads : SizeWrite(t)
    \/ \E t \in Threads : RegistryStartAt(t, "caches.clear", NoKey)
    \/ \E t \in Threads, q \in Queries :
         RegistryStartAt(t, "caches.remove", StatementCacheKey(q, <<>>))
    \/ \E t \in Threads : MutexLock(t)
    \/ \E t \in Threads : RegistryUpgrade(t)
    \/ \E t \in Threads : RegistryCall(t)
    \/ \E t \in Threads : RegistryRelease(t)
    \/ \E t \in Threads : RegistryUnlock(t)

SpecStale == InitThreads /\ [][NextStale]_vars

\* The key is one the registry call rec was about: any key for clear(), the
\* key given for remove(query, types).
Affected(rec, k) == rec.op = "caches.clear" \/ rec.k = k

\* C22 as claimed: when the last call to return is a registry-wide clear()
\* or remove(query, types), no attached live cache holds, under a key the
\* call was about, a handle of a statement that was prepared before the
\* call began.
C22_Original ==
    last.op \in {"caches.clear", "caches.remove"}
        => \A w \in Wrappers :
             (wrapper[w] = "alive" /\ Attached(caches, w))
               => \A k \in DOMAIN cache[w].map :
                    Affected(last, k) => cache[w].map[k] \notin 1..(last.n - 1)

\* C23: no step of a recycle, under any recycling method and whatever its
\* outcome, changes a cache or the list of the registry; after a recycle has
\* returned, failed ones included, the entry of the wrapper's cache is in
\* the list unless detach has run on the wrapper.
C23_RecycleKeepsCaches ==
    [][/\ ((\E t \in Tasks : task'[t] # task[t]
                              /\ "recycle" \in {task[t].op, task'[t].op})
           \/ (last'.op = "recycle" /\ last' # last))
            => /\ cache' = cache
               /\ caches' = caches
               /\ strong' = strong
       /\ (last'.op = "recycle" /\ ~detached'[last'.w])
            => Entries(caches', last'.w) = 1]_vars

\* C23 happens: a recycle of a wrapper whose cache holds a statement sent its
\* statement, failed with the error of the connection, and the cache is
\* still attached with its statement.
C23_Witness ==
    /\ last.op = "recycle"
    /\ last.ret = "ErrBackend"
    /\ last.n = 1
    /\ Attached(caches, last.w)
    /\ CacheSize(cache[last.w]) = 1
    /\ DOMAIN cache[last.w].map # {}
====
